---- MODULE Spec2Model ----
(***************************************************************************)
(* The unprivileged worker of fdm (child.c): do_child, poll_account,       *)
(* fetch_account, fetch_got, do_rules, do_expr, do_deliver and do_action,  *)
(* as one sequential state machine.  The fetch backend, the match          *)
(* primitives, the deliverers and the privileged parent are the            *)
(* environment: each of their answers is a nondeterministic choice.        *)
(***************************************************************************)
EXTENDS Integers, Sequences, FiniteSets, TLC

VARIABLES
    conf,   \* struct conf: the options and the ruleset read by the worker
    a,      \* struct account: name, keep, find_uid, users, fetch hooks
    op,     \* enum fdmop handed to do_child
    pc,     \* position of the worker in child.c
    error,  \* do_child's error
    ferr,   \* fetch_account's error (outcome of the last fetch)
    cause,  \* fetch_account's cause
    m,      \* struct mail: size, body, decision, tags, wrapped lines
    mctx,   \* struct match_ctx: matched, stopped
    stack,  \* the active do_rules calls: (rules, position) per nesting depth
    ex,     \* do_expr locals: position, fres, the primitives' answers so far
    dl,     \* do_deliver and do_action locals: i, ta, j, users, find, ui
    io,     \* the privsep channel as the worker sees it
    msg,    \* struct msg last sent or received
    ret,    \* return value of the do_rules call that last returned
    cnt,    \* fetch_account's n, dropped, kept and the number of fetches
    hist    \* history: the hook calls and their answers, the exit requests,
            \* and the configured user lists that have been freed

vars == <<conf, a, op, pc, error, ferr, cause, m, mctx, stack, ex, dl, io,
          msg, ret, cnt, hist>>

(***************************************************************************)
(* Bounds of the model.                                                    *)
(***************************************************************************)
MaxMails == 2
MaxExpr == 3

(***************************************************************************)
(* Values.                                                                 *)
(***************************************************************************)
Null == [null |-> TRUE, list |-> <<>>]
List(s) == [null |-> FALSE, list |-> s]

NoCause == "NULL"

MatchResults == {"MATCH_TRUE", "MATCH_FALSE", "MATCH_ERROR"}
Ops == {"OP_NONE", "OP_OR", "OP_AND"}

Item(o, inv) == [op |-> o, inverted |-> inv]

AddTag(tags, key, value) ==
    {t \in tags : t[1] # key} \cup {<<key, value>>}

(***************************************************************************)
(* do_expr, one item (lines 495-509): cres is the primitive's answer as a  *)
(* boolean, inverted when the item says so, and it is folded into fres     *)
(* with the item's own operator.                                           *)
(***************************************************************************)
BoolInt(b) == IF b THEN 1 ELSE 0

Cres(ei, r) ==
    IF ei.inverted THEN ~(r = "MATCH_TRUE") ELSE (r = "MATCH_TRUE")

\* OP_NONE without its fall-through to OP_OR
ExprStepNoFallThrough(fres, ei, cres) ==
    CASE ei.op = "OP_NONE" -> fres
      [] ei.op = "OP_OR"   -> BoolInt(fres = 1 \/ cres)
      [] ei.op = "OP_AND"  -> BoolInt(fres = 1 /\ cres)

ExprStep(fres, ei, cres) ==
    CASE ei.op = "OP_NONE" -> BoolInt(fres = 1 \/ cres)
      [] ei.op = "OP_OR"   -> BoolInt(fres = 1 \/ cres)
      [] ei.op = "OP_AND"  -> BoolInt(fres = 1 /\ cres)

(***************************************************************************)
(* Configuration: the actions, the rules and the options.                  *)
(***************************************************************************)
Action(name, type, deliver, find_uid, users) ==
    [name |-> name, type |-> type, deliver |-> deliver,
     find_uid |-> find_uid, users |-> users]

ConfActions ==
    << Action("keep", "DELIVER_INCHILD", TRUE, FALSE, Null),
       Action("pipe", "DELIVER_ASUSER", TRUE, FALSE, List(<<1, 2>>)),
       Action("rewrite", "DELIVER_WRBACK", TRUE, FALSE, Null),
       Action("nop", "DELIVER_INCHILD", FALSE, FALSE, Null),
       Action("derive", "DELIVER_ASUSER", TRUE, TRUE, List(<<4>>)) >>

Rule(idx, accounts, type, expr, key, actions, stop, find_uid, users, rules) ==
    [idx |-> idx, accounts |-> accounts, type |-> type, expr |-> expr,
     key |-> key, actions |-> actions, stop |-> stop, find_uid |-> find_uid,
     users |-> users, rules |-> rules]

X == Item("OP_NONE", FALSE)

\* A ruleset three levels deep; S is the set of rules that carry a stop flag.
\*   1 { 3 { 5 }  4 }  2
RuleTree(S) ==
    LET r5 == Rule(5, <<>>, "RULE_EXPRESSION", <<X, Item("OP_AND", TRUE)>>,
                   "NULL", List(<<"pipe">>), 5 \in S, FALSE, Null, <<>>)
        r3 == Rule(3, <<>>, "RULE_ALL", <<>>, "k3", List(<<"keep">>),
                   3 \in S, FALSE, Null, <<r5>>)
        r4 == Rule(4, <<"carol", "alice">>, "RULE_EXPRESSION", <<X>>, "NULL",
                   List(<<"rewrite">>), 4 \in S, TRUE, Null, <<>>)
        r1 == Rule(1, <<>>, "RULE_EXPRESSION", <<X, Item("OP_OR", FALSE)>>,
                   "NULL", Null, 1 \in S, FALSE, Null, <<r3, r4>>)
        r2 == Rule(2, <<"*">>, "RULE_ALL", <<>>, "NULL",
                   List(<<"nop", "keep">>), 2 \in S, FALSE, List(<<3>>), <<>>)
    IN  <<r1, r2>>

\* A flat ruleset: a rule for other accounts, a rule with expression e, and
\* a rule whose action template matches no action.
RuleFlat(e) ==
    << Rule(1, <<"bob", "carol">>, "RULE_ALL", <<>>, "NULL", List(<<"keep">>),
            TRUE, FALSE, Null, <<>>),
       Rule(2, <<>>, "RULE_EXPRESSION", e, "NULL", List(<<"pipe", "keep">>),
            TRUE, FALSE, Null, <<>>),
       Rule(3, <<>>, "RULE_ALL", <<>>, "NULL", List(<<"missing">>),
            FALSE, FALSE, Null, <<>>) >>

RuleIds == 1..5

RuleSets == {<<>>, RuleFlat(<<X>>)} \cup {RuleTree(S) : S \in SUBSET RuleIds}

Decisions == {"DECISION_NONE", "DECISION_KEEP", "DECISION_DROP"}

Hooks(start, poll, fetch, done, purge, finish) ==
    [start |-> start, poll |-> poll, fetch |-> fetch, done |-> done,
     purge |-> purge, finish |-> finish]

FdmOps == {"FDMOP_POLL", "FDMOP_FETCH", "FDMOP_NONE"}

FetchResults == {"FETCH_SUCCESS", "FETCH_ERROR"}
FetchOutcomes == {"FETCH_SUCCESS", "FETCH_ERROR", "FETCH_OVERSIZE", "FETCH_COMPLETE"}

(***************************************************************************)
(* A fresh struct mail (fetch_account, lines 207-209) and the other        *)
(* locals before their function runs.                                      *)
(***************************************************************************)
NewMail ==
    [size |-> 0, body |-> -1, id |-> FALSE, decision |-> "DECISION_DROP",
     tags |-> {}, wrapped |-> "\n"]

NoCtx == [matched |-> 0, stopped |-> 0]
NoDeliver ==
    [i |-> 0, ta |-> <<>>, j |-> 0, users |-> <<>>, find |-> 0, src |-> "",
     found |-> Null, ui |-> 0]
NoExpr == [i |-> 0, fres |-> 0, res |-> <<>>, ret |-> 0]
NoBuf == [null |-> TRUE, len |-> 0, tags |-> {}]
Buf(tags) == [null |-> FALSE, len |-> 1 + Cardinality(tags), tags |-> tags]
NoMsg == [type |-> "MSG_NONE", error |-> 0, size |-> 0, body |-> -1, uid |-> 0,
          action |-> "", buf |-> NoBuf]

(***************************************************************************)
(* Initial states: do_child is entered with an operation, an account and   *)
(* the configuration; nothing has been fetched or sent.                    *)
(***************************************************************************)
InitWith(rulesets, hooksets, options, ops) ==
    /\ \E o \in options, rules \in rulesets, hooks \in hooksets :
         /\ conf = [del_big |-> o.del_big, purge_after |-> o.purge_after,
                    impl_act |-> o.impl_act, keep_all |-> o.keep_all,
                    no_received |-> FALSE, rules |-> rules, def_user |-> 9]
         /\ a = [name |-> "alice", keep |-> o.keep, find_uid |-> FALSE,
                 users |-> Null, fetch |-> hooks]
    /\ op \in ops
    /\ pc = "do_child"
    /\ error = 1
    /\ ferr = "FETCH_SUCCESS"
    /\ cause = NoCause
    /\ m = NewMail
    /\ mctx = NoCtx
    /\ stack = <<>>
    /\ ex = NoExpr
    /\ dl = NoDeliver
    /\ io = [outstanding |-> 0, failed |-> FALSE, closed |-> FALSE]
    /\ msg = NoMsg
    /\ ret = 0
    /\ cnt = [n |-> 0, dropped |-> 0, kept |-> 0, fetched |-> 0]
    /\ hist = [starts |-> 0, start |-> "none", poll |-> "none", finishes |-> 0,
               finish |-> "none", exits |-> 0, freed |-> {}]

Fatal == pc' = "fatal"

(***************************************************************************)
(* do_child                                                                *)
(***************************************************************************)
\* lines 122-128 returning at once instead of goto out
DoChildCheckOpReturns ==
    /\ pc = "do_child"
    /\ pc' = IF \/ (op = "FDMOP_POLL" /\ ~a.fetch.poll)
                \/ (op = "FDMOP_FETCH" /\ ~a.fetch.fetch)
             THEN "returned" ELSE "dc_start"
    /\ UNCHANGED <<conf, a, op, error, ferr, cause, m, mctx, stack, ex, dl, io,
                   msg, ret, cnt, hist>>

\* lines 122-128: the operation the backend does not support
DoChildCheckOp ==
    /\ pc = "do_child"
    /\ pc' = IF \/ (op = "FDMOP_POLL" /\ ~a.fetch.poll)
                \/ (op = "FDMOP_FETCH" /\ ~a.fetch.fetch)
             THEN "dc_out" ELSE "dc_start"
    /\ UNCHANGED <<conf, a, op, error, ferr, cause, m, mctx, stack, ex, dl, io,
                   msg, ret, cnt, hist>>

\* lines 131-135 with the failed start skipping the finish hook
DoChildStartSkipsFinish ==
    /\ pc = "dc_start"
    /\ IF a.fetch.start
       THEN \E r \in FetchResults :
              /\ hist' = [hist EXCEPT !.starts = @ + 1, !.start = r]
              /\ pc' = IF r # "FETCH_SUCCESS" THEN "dc_exit" ELSE "dc_process"
       ELSE /\ pc' = "dc_process"
            /\ UNCHANGED hist
    /\ UNCHANGED <<conf, a, op, error, ferr, cause, m, mctx, stack, ex, dl, io,
                   msg, ret, cnt>>

\* lines 131-135: the start hook
DoChildStart ==
    /\ pc = "dc_start"
    /\ IF a.fetch.start
       THEN \E r \in FetchResults :
              /\ hist' = [hist EXCEPT !.starts = @ + 1, !.start = r]
              /\ pc' = IF r # "FETCH_SUCCESS" THEN "dc_out" ELSE "dc_process"
       ELSE /\ pc' = "dc_process"
            /\ UNCHANGED hist
    /\ UNCHANGED <<conf, a, op, error, ferr, cause, m, mctx, stack, ex, dl, io,
                   msg, ret, cnt>>

\* lines 137-148: switch (op)
DoChildProcess ==
    /\ pc = "dc_process"
    /\ pc' = CASE op = "FDMOP_POLL" -> "poll_account"
               [] op = "FDMOP_FETCH" -> "fa_fetch"
               [] OTHER -> "fatal"
    /\ cnt' = IF op = "FDMOP_FETCH"
              THEN [cnt EXCEPT !.n = 0, !.dropped = 0, !.kept = 0] ELSE cnt
    /\ UNCHANGED <<conf, a, op, error, ferr, cause, m, mctx, stack, ex, dl, io,
                   msg, ret, hist>>

\* poll_account, lines 178-193, and its return to line 141
PollAccount ==
    /\ pc = "poll_account"
    /\ \E r \in FetchResults :
         /\ error' = IF r = "FETCH_ERROR" THEN 1 ELSE 0
         /\ hist' = [hist EXCEPT !.poll = r]
    /\ pc' = "dc_out"
    /\ UNCHANGED <<conf, a, op, ferr, cause, m, mctx, stack, ex, dl, io, msg,
                   ret, cnt>>

\* lines 151-154 with the finish hook's answer dropped
DoChildFinishKeepsError ==
    /\ pc = "dc_out"
    /\ IF a.fetch.finish
       THEN \E r \in FetchResults :
              /\ hist' = [hist EXCEPT !.finishes = @ + 1, !.finish = r]
              /\ error' = error
       ELSE UNCHANGED <<hist, error>>
    /\ pc' = "dc_exit"
    /\ UNCHANGED <<conf, a, op, ferr, cause, m, mctx, stack, ex, dl, io, msg,
                   ret, cnt>>

\* lines 151-154: the finish hook
DoChildFinish ==
    /\ pc = "dc_out"
    /\ IF a.fetch.finish
       THEN \E r \in FetchResults :
              /\ hist' = [hist EXCEPT !.finishes = @ + 1, !.finish = r]
              /\ error' = IF r # "FETCH_SUCCESS" THEN 1 ELSE error
       ELSE UNCHANGED <<hist, error>>
    /\ pc' = "dc_exit"
    /\ UNCHANGED <<conf, a, op, ferr, cause, m, mctx, stack, ex, dl, io, msg,
                   ret, cnt>>

\* lines 156-160: the exit request
DoChildSendExit ==
    /\ pc = "dc_exit"
    /\ \E sent \in BOOLEAN :
         IF sent
         THEN /\ msg' = [NoMsg EXCEPT !.type = "MSG_EXIT"]
              /\ io' = [io EXCEPT !.outstanding = @ + 1]
              /\ hist' = [hist EXCEPT !.exits = @ + 1]
              /\ pc' = "dc_exit_recv"
         ELSE /\ Fatal
              /\ io' = [io EXCEPT !.failed = TRUE]
              /\ UNCHANGED <<msg, hist>>
    /\ UNCHANGED <<conf, a, op, error, ferr, cause, m, mctx, stack, ex, dl,
                   ret, cnt>>

\* lines 161-176: the exit reply, closing the channel and returning error
DoChildRecvExit ==
    /\ pc = "dc_exit_recv"
    /\ \E rcvd \in BOOLEAN, type \in {"MSG_EXIT", "MSG_DONE"} :
         IF ~rcvd
         THEN /\ Fatal
              /\ io' = [io EXCEPT !.failed = TRUE]
              /\ UNCHANGED msg
         ELSE /\ msg' = [NoMsg EXCEPT !.type = type]
              /\ IF type # "MSG_EXIT"
                 THEN /\ Fatal
                      /\ io' = [io EXCEPT !.outstanding = @ - 1]
                 ELSE /\ io' = [io EXCEPT !.outstanding = @ - 1,
                                         !.closed = TRUE]
                      /\ pc' = "returned"
    /\ UNCHANGED <<conf, a, op, error, ferr, cause, m, mctx, stack, ex, dl,
                   ret, cnt, hist>>

(***************************************************************************)
(* fetch_account                                                           *)
(***************************************************************************)
\* What a fetch can hand back in m: size and body offset after trim_from, and
\* whether the mail has a message-id header.
FetchedMails ==
    {[size |-> 0, body |-> -1, id |-> FALSE],
     [size |-> 3, body |-> -1, id |-> FALSE],
     [size |-> 3, body |-> 2, id |-> TRUE]}


\* lines 206-237: one fetch.  The backend answers Complete or Error once
\* MaxMails items have been handed out.
FetchAccountFetch ==
    /\ pc = "fa_fetch"
    /\ \E outcome \in FetchOutcomes, f \in FetchedMails :
         /\ cnt.fetched < MaxMails \/ outcome \in {"FETCH_ERROR", "FETCH_COMPLETE"}
         /\ outcome = "FETCH_SUCCESS" \/ ~f.id
         /\ outcome \in {"FETCH_SUCCESS", "FETCH_OVERSIZE"} \/ f.size = 0
         /\ outcome = "FETCH_OVERSIZE" => f.size > 0
         /\ ferr' = outcome
         /\ m' = [NewMail EXCEPT !.size = f.size, !.body = f.body, !.id = f.id]
         /\ cnt' = IF outcome \in {"FETCH_SUCCESS", "FETCH_OVERSIZE"}
                   THEN [cnt EXCEPT !.fetched = @ + 1] ELSE cnt
         /\ CASE outcome = "FETCH_ERROR" ->
                   /\ cause' = "fetching"
                   /\ pc' = "fa_out"
              [] outcome = "FETCH_OVERSIZE" ->
                   IF conf.del_big
                   THEN /\ pc' = "fa_done"
                        /\ UNCHANGED cause
                   ELSE /\ cause' = "fetching"
                        /\ pc' = "fa_out"
              [] outcome = "FETCH_COMPLETE" ->
                   /\ pc' = "fa_out"
                   /\ UNCHANGED cause
              [] outcome = "FETCH_SUCCESS" ->
                   /\ pc' = IF f.size = 0 THEN "fa_fetch" ELSE "fetch_got"
                   /\ UNCHANGED cause
    /\ UNCHANGED <<conf, a, op, error, mctx, stack, ex, dl, io, msg, ret, hist>>

\* lines 239-259: the done hook is told m.decision
FetchAccountDone ==
    /\ pc = "fa_done"
    /\ IF ~a.fetch.done
       THEN /\ pc' = "fa_purge"
            /\ UNCHANGED <<cause, cnt>>
       ELSE IF m.decision \notin {"DECISION_DROP", "DECISION_KEEP"}
       THEN /\ Fatal
            /\ UNCHANGED <<cause, cnt>>
       ELSE \E r \in FetchResults :
              /\ cnt' = IF m.decision = "DECISION_DROP"
                        THEN [cnt EXCEPT !.dropped = @ + 1]
                        ELSE [cnt EXCEPT !.kept = @ + 1]
              /\ IF r # "FETCH_SUCCESS"
                 THEN /\ cause' = IF m.decision = "DECISION_DROP"
                                  THEN "deleting" ELSE "keeping"
                      /\ pc' = "fa_out"
                 ELSE /\ cause' = NoCause
                      /\ pc' = "fa_purge"
    /\ UNCHANGED <<conf, a, op, error, ferr, m, mctx, stack, ex, dl, io, msg,
                   ret, hist>>

\* lines 261-274: the purge hook every purge_after items, then mail_destroy
FetchAccountPurge ==
    /\ pc = "fa_purge"
    /\ IF conf.purge_after > 0 /\ a.fetch.purge
       THEN IF cnt.n + 1 >= conf.purge_after
            THEN \E r \in FetchResults :
                   IF r # "FETCH_SUCCESS"
                   THEN /\ cause' = "purging"
                        /\ cnt' = [cnt EXCEPT !.n = @ + 1]
                        /\ pc' = "fa_out"
                   ELSE /\ cnt' = [cnt EXCEPT !.n = 0]
                        /\ pc' = "fa_fetch"
                        /\ UNCHANGED cause
            ELSE /\ cnt' = [cnt EXCEPT !.n = @ + 1]
                 /\ pc' = "fa_fetch"
                 /\ UNCHANGED cause
       ELSE /\ pc' = "fa_fetch"
            /\ UNCHANGED <<cause, cnt>>
    /\ UNCHANGED <<conf, a, op, error, ferr, m, mctx, stack, ex, dl, io, msg,
                   ret, hist>>

\* lines 276-291, and the assignment of line 144
FetchAccountOut ==
    /\ pc = "fa_out"
    /\ error' = IF cause # NoCause THEN 1 ELSE 0
    /\ m' = NewMail
    /\ pc' = "dc_out"
    /\ UNCHANGED <<conf, a, op, ferr, cause, mctx, stack, ex, dl, io, msg, ret,
                   cnt, hist>>

(***************************************************************************)
(* fetch_got                                                               *)
(***************************************************************************)
\* lines 355-372: the implicit decision at the end of the ruleset
ImplicitDecision(impl_act) ==
    CASE impl_act = "DECISION_NONE" -> "DECISION_KEEP"
      [] impl_act = "DECISION_KEEP" -> "DECISION_KEEP"
      [] impl_act = "DECISION_DROP" -> "DECISION_DROP"

\* lines 352-372 without the test of mctx.stopped
RulesetDecisionIgnoresStop(stopped, decision, impl_act) ==
    ImplicitDecision(impl_act)

\* lines 352-372: the decision at the label done
RulesetDecision(stopped, decision, impl_act) ==
    IF stopped # 0 THEN decision ELSE ImplicitDecision(impl_act)

\* lines 374-376
KeepDecision(decision, keep_all, keep) ==
    IF keep_all \/ keep THEN "DECISION_KEEP" ELSE decision

\* lines 303-350: message-id tag, received header, fill_wrapped and the call
\* of do_rules on conf.rules
FetchGotBegin ==
    /\ pc = "fetch_got"
    /\ LET ins == ~conf.no_received IN
         m' = [m EXCEPT
                 !.tags = IF m.id THEN AddTag(@, "message_id", "id") ELSE @,
                 !.size = IF ins THEN @ + 1 ELSE @,
                 !.body = IF ins /\ @ # -1 THEN @ + 1 ELSE @,
                 !.wrapped = "\n"]
    /\ mctx' = NoCtx
    /\ stack' = <<[rules |-> conf.rules, i |-> 1]>>
    /\ pc' = "do_rules"
    /\ UNCHANGED <<conf, a, op, error, ferr, cause, ex, dl, io, msg, ret, cnt,
                   hist>>

\* lines 350-377, and the return to lines 236-237
FetchGotRules ==
    /\ pc = "fg_rules"
    /\ IF ret # 0
       THEN /\ pc' = "fa_out"
            /\ UNCHANGED m
       ELSE /\ m' = [m EXCEPT !.decision =
                       KeepDecision(
                         RulesetDecision(mctx.stopped, m.decision, conf.impl_act),
                         conf.keep_all, a.keep)]
            /\ pc' = "fa_done"
    /\ mctx' = NoCtx
    /\ ret' = 0
    /\ UNCHANGED <<conf, a, op, error, ferr, cause, stack, ex, dl, io, msg,
                   cnt, hist>>

(***************************************************************************)
(* do_rules and do_expr                                                    *)
(***************************************************************************)
Top == stack[Len(stack)]
R == Top.rules[Top.i]

\* TAILQ_FOREACH staying at the rule it is at
NextRuleStays == stack

\* TAILQ_NEXT in the innermost active do_rules call
NextRule == [stack EXCEPT ![Len(stack)].i = @ + 1]

\* name_match: a shell pattern against a name
NameMatch(pattern, name) == pattern = "*" \/ pattern = name

\* lines 393-402 trying the first name of the rule only
AccountSkipsFirstName(aa, name) ==
    /\ aa # <<>>
    /\ ~NameMatch(aa[1], name)

\* lines 393-402: the rule is for other accounts
AccountSkips(aa, name) ==
    /\ aa # <<>>
    /\ \A i \in 1..Len(aa) : ~NameMatch(aa[i], name)

\* lines 391-402 and 483: the next rule of the list, or the end of the list
DoRulesNext ==
    /\ pc = "do_rules"
    /\ IF Top.i > Len(Top.rules)
       THEN /\ ret' = 0
            /\ pc' = "dr_return"
            /\ UNCHANGED stack
       ELSE IF AccountSkips(R.accounts, a.name)
       THEN /\ stack' = NextRule
            /\ UNCHANGED <<pc, ret>>
       ELSE /\ pc' = "dr_match"
            /\ UNCHANGED <<stack, ret>>
    /\ UNCHANGED <<conf, a, op, error, ferr, cause, m, mctx, ex, dl, io, msg,
                   cnt, hist>>

\* lines 404-411 and 420-421: switch (r->type)
DoRulesMatch ==
    /\ pc = "dr_match"
    /\ IF R.type = "RULE_EXPRESSION"
       THEN /\ m' = [m EXCEPT !.wrapped = " "]
            /\ ex' = [i |-> 1, fres |-> 0, res |-> <<>>, ret |-> 0]
            /\ pc' = "do_expr"
       ELSE /\ pc' = "dr_matched"
            /\ UNCHANGED <<m, ex>>
    /\ UNCHANGED <<conf, a, op, error, ferr, cause, mctx, stack, dl, io, msg,
                   ret, cnt, hist>>

\* do_expr, lines 493-516: one item per step; the primitive answers r
DoExprItem ==
    /\ pc = "do_expr"
    /\ IF ex.i > Len(R.expr)
       THEN /\ ex' = [ex EXCEPT !.ret = ex.fres]
            /\ pc' = "dr_expr"
       ELSE \E r \in MatchResults :
              IF r = "MATCH_ERROR"
              THEN /\ ex' = [ex EXCEPT !.ret = -1, !.res = Append(@, r)]
                   /\ pc' = "dr_expr"
              ELSE /\ ex' = [ex EXCEPT
                               !.fres = ExprStep(@, R.expr[ex.i], Cres(R.expr[ex.i], r)),
                               !.res = Append(@, r),
                               !.i = @ + 1]
                   /\ UNCHANGED pc
    /\ UNCHANGED <<conf, a, op, error, ferr, cause, m, mctx, stack, dl, io, msg,
                   ret, cnt, hist>>

\* lines 411-419: what do_rules does with do_expr's value
DoRulesExpr ==
    /\ pc = "dr_expr"
    /\ ex' = NoExpr
    /\ CASE ex.ret = -1 ->
              /\ cause' = "matching"
              /\ ret' = 1
              /\ pc' = "dr_return"
              /\ UNCHANGED stack
         [] ex.ret = 0 ->
              /\ stack' = NextRule
              /\ pc' = "do_rules"
              /\ UNCHANGED <<cause, ret>>
         [] OTHER ->
              /\ pc' = "dr_matched"
              /\ UNCHANGED <<cause, ret, stack>>
    /\ UNCHANGED <<conf, a, op, error, ferr, m, mctx, dl, io, msg, cnt, hist>>

\* lines 424-461 without set_wrapped('\n')
DoRulesMatchedKeepsWrapped ==
    /\ pc = "dr_matched"
    /\ m' = [m EXCEPT
                !.tags = IF R.key # "NULL" THEN AddTag(@, R.key, "value") ELSE @]
    /\ IF ~R.actions.null
       THEN /\ mctx' = [mctx EXCEPT !.matched = 1]
            /\ dl' = [NoDeliver EXCEPT !.i = 1]
            /\ pc' = "do_deliver"
       ELSE /\ pc' = "dr_nested"
            /\ UNCHANGED <<mctx, dl>>
    /\ UNCHANGED <<conf, a, op, error, ferr, cause, stack, ex, io, msg, ret,
                   cnt, hist>>

\* lines 424-461: set_wrapped('\n'), the rule's tag, and the call of
\* do_deliver when the rule has actions
DoRulesMatched ==
    /\ pc = "dr_matched"
    /\ m' = [m EXCEPT
                !.wrapped = "\n",
                !.tags = IF R.key # "NULL" THEN AddTag(@, R.key, "value") ELSE @]
    /\ IF ~R.actions.null
       THEN /\ mctx' = [mctx EXCEPT !.matched = 1]
            /\ dl' = [NoDeliver EXCEPT !.i = 1]
            /\ pc' = "do_deliver"
       ELSE /\ pc' = "dr_nested"
            /\ UNCHANGED <<mctx, dl>>
    /\ UNCHANGED <<conf, a, op, error, ferr, cause, stack, ex, io, msg, ret,
                   cnt, hist>>

\* lines 463-467: the nested rules
DoRulesNested ==
    /\ pc = "dr_nested"
    /\ IF R.rules # <<>>
       THEN /\ stack' = Append(stack, [rules |-> R.rules, i |-> 1])
            /\ pc' = "do_rules"
       ELSE /\ pc' = "dr_stop"
            /\ UNCHANGED stack
    /\ UNCHANGED <<conf, a, op, error, ferr, cause, m, mctx, ex, dl, io, msg,
                   ret, cnt, hist>>

\* lines 466-474 without the test of mctx->stopped
NestedReturnIgnoresStop(r, stopped) ==
    IF r # 0 THEN [ret |-> 1, pc |-> "dr_return"]
    ELSE [ret |-> r, pc |-> "dr_stop"]

\* lines 466-474 returning after the nested rules whatever mctx->stopped is
NestedReturnAlwaysReturns(r, stopped) ==
    IF r # 0 THEN [ret |-> 1, pc |-> "dr_return"]
    ELSE [ret |-> 0, pc |-> "dr_return"]

\* lines 466-474: what the calling do_rules does with the nested call's value
NestedReturn(r, stopped) ==
    IF r # 0 THEN [ret |-> 1, pc |-> "dr_return"]
    ELSE IF stopped # 0 THEN [ret |-> 0, pc |-> "dr_return"]
    ELSE [ret |-> r, pc |-> "dr_stop"]

\* return (...) of do_rules: to the calling do_rules, or to fetch_got
DoRulesReturn ==
    /\ pc = "dr_return"
    /\ stack' = SubSeq(stack, 1, Len(stack) - 1)
    /\ IF Len(stack) = 1
       THEN /\ pc' = "fg_rules"
            /\ UNCHANGED ret
       ELSE /\ ret' = NestedReturn(ret, mctx.stopped).ret
            /\ pc' = NestedReturn(ret, mctx.stopped).pc
    /\ UNCHANGED <<conf, a, op, error, ferr, cause, m, mctx, ex, dl, io, msg,
                   cnt, hist>>

\* lines 476-481: the rule's stop flag
DoRulesStop ==
    /\ pc = "dr_stop"
    /\ IF R.stop
       THEN /\ mctx' = [mctx EXCEPT !.stopped = 1]
            /\ ret' = 0
            /\ pc' = "dr_return"
            /\ UNCHANGED stack
       ELSE /\ stack' = NextRule
            /\ pc' = "do_rules"
            /\ UNCHANGED <<mctx, ret>>
    /\ UNCHANGED <<conf, a, op, error, ferr, cause, m, ex, dl, io, msg, cnt,
                   hist>>

(***************************************************************************)
(* do_deliver and do_action                                                *)
(***************************************************************************)
\* match_actions: the configured actions whose name the string matches
MatchActions(str) ==
    SelectSeq(ConfActions, LAMBDA t : NameMatch(str, t.name))

\* lines 530-548 and 558-561: the next action template of the rule; do_deliver
\* returns to lines 457-461 of do_rules
DoDeliverNext ==
    /\ pc = "do_deliver"
    /\ IF dl.i > Len(R.actions.list)
       THEN /\ dl' = NoDeliver
            /\ pc' = "dr_nested"
            /\ UNCHANGED <<cause, ret>>
       ELSE IF MatchActions(R.actions.list[dl.i]) = <<>>
       THEN /\ dl' = NoDeliver
            /\ cause' = "delivery"
            /\ ret' = 1
            /\ pc' = "dr_return"
       ELSE /\ dl' = [dl EXCEPT !.ta = MatchActions(R.actions.list[dl.i]), !.j = 1]
            /\ pc' = "dd_action"
            /\ UNCHANGED <<cause, ret>>
    /\ UNCHANGED <<conf, a, op, error, ferr, m, mctx, stack, ex, io, msg, cnt,
                   hist>>

\* lines 549-558: the next action the template matched
DoDeliverAction ==
    /\ pc = "dd_action"
    /\ IF dl.j > Len(dl.ta)
       THEN /\ dl' = [dl EXCEPT !.i = @ + 1, !.ta = <<>>, !.j = 0]
            /\ pc' = "do_deliver"
       ELSE /\ pc' = "do_action"
            /\ UNCHANGED dl
    /\ UNCHANGED <<conf, a, op, error, ferr, cause, m, mctx, stack, ex, io, msg,
                   ret, cnt, hist>>

T == dl.ta[dl.j]

\* lines 592-619 with the rule's list before the rule's derive flag
ResolveUsersListFirst(r, t, acct, found, def_user) ==
    LET chosen ==
          IF ~r.users.null
          THEN [users |-> r.users, find |-> 0, src |-> "rule", called |-> FALSE]
          ELSE IF r.find_uid
          THEN [users |-> found, find |-> 1, src |-> "found", called |-> TRUE]
          ELSE IF t.find_uid
          THEN [users |-> found, find |-> 1, src |-> "found", called |-> TRUE]
          ELSE IF ~t.users.null
          THEN [users |-> t.users, find |-> 0, src |-> "action", called |-> FALSE]
          ELSE IF acct.find_uid
          THEN [users |-> found, find |-> 1, src |-> "found", called |-> TRUE]
          ELSE IF ~acct.users.null
          THEN [users |-> acct.users, find |-> 0, src |-> "account",
                called |-> FALSE]
          ELSE [users |-> Null, find |-> 0, src |-> "", called |-> FALSE]
    IN  IF chosen.users.null
        THEN [users |-> <<def_user>>, find |-> 1, src |-> "default",
              called |-> chosen.called]
        ELSE [users |-> chosen.users.list, find |-> chosen.find,
              src |-> chosen.src, called |-> chosen.called]

\* lines 592-619: the users to deliver as; found is what find_users(m) gives.
\* src names the list users points to: a configured list (the rule's, the
\* action's or the account's), the list find_users made, or the list made of
\* conf.def_user; called says whether find_users was called.
ResolveUsers(r, t, acct, found, def_user) ==
    LET chosen ==
          IF r.find_uid
          THEN [users |-> found, find |-> 1, src |-> "found", called |-> TRUE]
          ELSE IF ~r.users.null
          THEN [users |-> r.users, find |-> 0, src |-> "rule", called |-> FALSE]
          ELSE IF t.find_uid
          THEN [users |-> found, find |-> 1, src |-> "found", called |-> TRUE]
          ELSE IF ~t.users.null
          THEN [users |-> t.users, find |-> 0, src |-> "action", called |-> FALSE]
          ELSE IF acct.find_uid
          THEN [users |-> found, find |-> 1, src |-> "found", called |-> TRUE]
          ELSE IF ~acct.users.null
          THEN [users |-> acct.users, find |-> 0, src |-> "account",
                called |-> FALSE]
          ELSE [users |-> Null, find |-> 0, src |-> "", called |-> FALSE]
    IN  IF chosen.users.null
        THEN [users |-> <<def_user>>, find |-> 1, src |-> "default",
              called |-> chosen.called]
        ELSE [users |-> chosen.users.list, find |-> chosen.find,
              src |-> chosen.src, called |-> chosen.called]

FoundUsers == {Null, List(<<5>>)}

\* do_action returns v to line 552 of do_deliver, which on failure returns to
\* lines 457-460 of do_rules
ActionReturns(v) ==
    IF v # 0
    THEN /\ dl' = NoDeliver
         /\ cause' = "delivery"
         /\ ret' = 1
         /\ pc' = "dr_return"
    ELSE /\ dl' = [dl EXCEPT !.j = @ + 1, !.users = <<>>, !.find = 0,
                            !.src = "", !.found = Null, !.ui = 0]
         /\ pc' = "dd_action"
         /\ UNCHANGED <<cause, ret>>

\* lines 577-619: no deliverer, in-child delivery, or the users of the requests
DoActionBegin ==
    /\ pc = "do_action"
    /\ IF ~T.deliver
       THEN /\ ActionReturns(0)
            /\ UNCHANGED m
       ELSE IF T.type = "DELIVER_INCHILD"
       THEN \E res \in {"DELIVER_SUCCESS", "DELIVER_FAILURE"},
               d \in {m.decision, "DECISION_KEEP", "DECISION_DROP"} :
              /\ m' = [m EXCEPT !.tags = AddTag(@, "action", T.name),
                                !.decision = d]
              /\ ActionReturns(IF res # "DELIVER_SUCCESS" THEN 1 ELSE 0)
       ELSE \E found \in FoundUsers :
              LET u == ResolveUsers(R, T, a, found, conf.def_user) IN
              /\ u.called \/ found = Null
              /\ m' = [m EXCEPT !.tags = AddTag(@, "action", T.name)]
              /\ dl' = [dl EXCEPT !.users = u.users, !.find = u.find,
                                  !.src = u.src, !.found = found, !.ui = 1]
              /\ pc' = "da_send"
              /\ UNCHANGED <<cause, ret>>
    /\ UNCHANGED <<conf, a, op, error, ferr, mctx, stack, ex, io, msg, cnt, hist>>

\* ARRAY_FREEALL(users), lines 646 and 670-671: the list users points to is
\* released; freed keeps the configured lists this happened to
ConfiguredLists == {"rule", "action", "account"}

FreeAll(freed, src) == freed \cup ({src} \cap ConfiguredLists)

\* lines 641-643 adding the reply's tags to the mail's
UpdateTagsMerges(tags, buf) == tags \cup buf.tags

\* lines 641-643: strb_destroy, m->tags = buf, update_tags
UpdateTags(tags, buf) == buf.tags

\* lines 630-634 going round the loop without privsep_recv
AfterSendNoReceive(sent) == IF sent THEN "da_send" ELSE "fatal"

\* lines 630-634: after privsep_send, fatalx or on to privsep_recv
AfterSend(sent) == IF sent THEN "da_recv" ELSE "fatal"

\* lines 621-632 and 670-673: the request for the next user, or the end of
\* the users
DoActionSend ==
    /\ pc = "da_send"
    /\ IF dl.ui > Len(dl.users)
       THEN /\ ActionReturns(0)
            /\ msg' = NoMsg
            /\ hist' = [hist EXCEPT !.freed =
                          IF dl.find # 0 THEN FreeAll(@, dl.src) ELSE @]
            /\ UNCHANGED io
       ELSE \E sent \in BOOLEAN :
              IF sent
              THEN /\ msg' = [type |-> "MSG_ACTION", error |-> 0, size |-> m.size,
                              body |-> m.body, uid |-> dl.users[dl.ui],
                              action |-> T.name, buf |-> Buf(m.tags)]
                   /\ io' = [io EXCEPT !.outstanding = @ + 1]
                   /\ pc' = AfterSend(sent)
                   /\ UNCHANGED <<dl, cause, ret, hist>>
              ELSE /\ pc' = AfterSend(sent)
                   /\ io' = [io EXCEPT !.failed = TRUE]
                   /\ UNCHANGED <<msg, dl, cause, ret, hist>>
    /\ UNCHANGED <<conf, a, op, error, ferr, m, mctx, stack, ex, cnt>>

\* What the parent can answer to the request in msg.
Reply(type, err, size, body, buf) ==
    [type |-> type, error |-> err, size |-> size, body |-> body,
     uid |-> msg.uid, action |-> msg.action, buf |-> buf]

Replies ==
    {Reply("MSG_EXIT", 0, m.size, m.body, NoBuf)}
    \cup {Reply("MSG_DONE", e, m.size, m.body, b) :
             e \in {0, 1}, b \in {NoBuf, [NoBuf EXCEPT !.null = FALSE]}}
    \cup {Reply("MSG_DONE", e, sb[1], sb[2], Buf(t)) :
             e \in {0, 1},
             sb \in {<<m.size, m.body>>, <<m.size + 1, m.body>>,
                     <<m.size, m.body + 1>>},
             t \in {m.tags, AddTag(m.tags, "action", "parent")}}

\* lines 636-656 without the test of the tag buffer
ReplyVerdictAnyBuffer(reply, type, size, body) ==
    IF reply.type # "MSG_DONE" THEN "fatal"
    ELSE IF reply.error # 0 THEN "error"
    ELSE IF type # "DELIVER_WRBACK"
         THEN IF size # reply.size \/ body # reply.body THEN "fatal" ELSE "same"
    ELSE "receive"

\* lines 636-656 comparing the size alone
ReplyVerdictSizeOnly(reply, type, size, body) ==
    IF reply.type # "MSG_DONE" THEN "fatal"
    ELSE IF reply.buf.null \/ reply.buf.len = 0 THEN "fatal"
    ELSE IF reply.error # 0 THEN "error"
    ELSE IF type # "DELIVER_WRBACK"
         THEN IF size # reply.size THEN "fatal" ELSE "same"
    ELSE "receive"

\* lines 636-656: what do_action makes of a reply: fatalx, return (1), or on
\* to the next user with or without the mail of the reply
ReplyVerdict(reply, type, size, body) ==
    IF reply.type # "MSG_DONE" THEN "fatal"
    ELSE IF reply.buf.null \/ reply.buf.len = 0 THEN "fatal"
    ELSE IF reply.error # 0 THEN "error"
    ELSE IF type # "DELIVER_WRBACK"
         THEN IF size # reply.size \/ body # reply.body THEN "fatal" ELSE "same"
    ELSE "receive"

\* lines 634-668: the reply
DoActionRecv ==
    /\ pc = "da_recv"
    /\ \E rcvd \in BOOLEAN, reply \in Replies :
         IF ~rcvd
         THEN /\ Fatal
              /\ io' = [io EXCEPT !.failed = TRUE]
              /\ UNCHANGED <<msg, m, dl, cause, ret, hist>>
         ELSE LET v == ReplyVerdict(reply, T.type, m.size, m.body)
                  tagged == [m EXCEPT !.tags = UpdateTags(@, reply.buf)]
              IN
              /\ msg' = reply
              /\ io' = [io EXCEPT !.outstanding = @ - 1]
              /\ CASE v = "fatal" ->
                        /\ Fatal
                        /\ UNCHANGED <<dl, cause, ret, hist>>
                        /\ m' = IF reply.type = "MSG_DONE" /\ ~reply.buf.null
                                   /\ reply.buf.len # 0
                                THEN tagged ELSE m
                   [] v = "error" ->
                        /\ m' = tagged
                        /\ hist' = [hist EXCEPT !.freed = FreeAll(@, dl.src)]
                        /\ ActionReturns(1)
                   [] v = "same" ->
                        /\ m' = tagged
                        /\ dl' = [dl EXCEPT !.ui = @ + 1]
                        /\ pc' = "da_send"
                        /\ UNCHANGED <<cause, ret, hist>>
                   [] v = "receive" ->
                        /\ m' = [tagged EXCEPT !.size = reply.size,
                                               !.body = reply.body,
                                               !.wrapped = "\n"]
                        /\ dl' = [dl EXCEPT !.ui = @ + 1]
                        /\ pc' = "da_send"
                        /\ UNCHANGED <<cause, ret, hist>>
    /\ UNCHANGED <<conf, a, op, error, ferr, mctx, stack, ex, cnt>>

(***************************************************************************)
(* The worker.                                                             *)
(***************************************************************************)
Next ==
    \/ DoChildCheckOp
    \/ DoChildStart
    \/ DoChildProcess
    \/ PollAccount
    \/ DoChildFinish
    \/ DoChildSendExit
    \/ DoChildRecvExit
    \/ FetchAccountFetch
    \/ FetchAccountDone
    \/ FetchAccountPurge
    \/ FetchAccountOut
    \/ FetchGotBegin
    \/ FetchGotRules
    \/ DoRulesNext
    \/ DoRulesMatch
    \/ DoExprItem
    \/ DoRulesExpr
    \/ DoRulesMatched
    \/ DoRulesNested
    \/ DoRulesReturn
    \/ DoRulesStop
    \/ DoDeliverNext
    \/ DoDeliverAction
    \/ DoActionBegin
    \/ DoActionSend
    \/ DoActionRecv

Options(del_bigs, purge_afters, impl_acts, keep_alls, keeps) ==
    [del_big : del_bigs, purge_after : purge_afters, impl_act : impl_acts,
     keep_all : keep_alls, keep : keeps]

AllHooks == Hooks(TRUE, TRUE, TRUE, TRUE, TRUE, TRUE)
FetchOnly == Hooks(FALSE, TRUE, TRUE, FALSE, FALSE, FALSE)
Unsupported == Hooks(TRUE, FALSE, FALSE, TRUE, TRUE, TRUE)

\* The worker over the backends' hooks and the fetch loop's options.
Init ==
    InitWith({<<>>, RuleFlat(<<X>>), RuleTree({3})},
             {AllHooks, FetchOnly, Unsupported},
             Options(BOOLEAN, {0, 2}, {"DECISION_DROP"}, BOOLEAN, BOOLEAN),
             FdmOps)

Spec == Init /\ [][Next]_vars

\* The worker over the rulesets.
InitRules ==
    InitWith(RuleSets, {AllHooks},
             Options({TRUE}, {0}, {"DECISION_KEEP"}, {FALSE}, {FALSE}),
             FdmOps)

SpecRules == InitRules /\ [][Next]_vars

\* The worker over the implicit decision and the keep options.
InitDecision ==
    InitWith({<<>>, RuleFlat(<<X>>), RuleTree({}), RuleTree({5})}, {AllHooks},
             Options({TRUE}, {0}, Decisions, BOOLEAN, BOOLEAN),
             FdmOps)

SpecDecision == InitDecision /\ [][Next]_vars

\* One evaluation of do_rules' switch on a rule whose expression is any list
\* of up to MaxExpr items.
Exprs ==
    UNION {[1..n -> [op : Ops, inverted : BOOLEAN]] : n \in 1..MaxExpr}

InitExpr ==
    /\ InitWith({RuleFlat(e) : e \in Exprs}, {AllHooks},
                Options({TRUE}, {0}, {"DECISION_KEEP"}, {FALSE}, {FALSE}),
                {"FDMOP_FETCH"})

NextExpr ==
    \/ DoChildCheckOp
    \/ DoChildStart
    \/ DoChildProcess
    \/ FetchAccountFetch
    \/ FetchGotBegin
    \/ DoRulesNext
    \/ DoRulesMatch
    \/ DoExprItem
    \/ DoRulesExpr

SpecExpr == InitExpr /\ [][NextExpr]_vars

\* One rule whose action t is delivered as the users of the rule, of the
\* action or of the account.
RuleUsers(find_uid, users, t) ==
    << Rule(1, <<>>, "RULE_EXPRESSION", <<X>>, "NULL", List(<<t>>), TRUE,
            find_uid, users, <<>>) >>

\* The worker over the providers of users: the rule's, the action's and the
\* account's derive flag and list.
InitUsers ==
    /\ \E rf \in BOOLEAN, ru \in {Null, List(<<3>>)},
          t \in {"pipe", "rewrite", "derive"},
          af \in BOOLEAN, au \in {Null, List(<<7, 8>>)} :
         /\ conf = [del_big |-> TRUE, purge_after |-> 0,
                    impl_act |-> "DECISION_KEEP", keep_all |-> FALSE,
                    no_received |-> FALSE, rules |-> RuleUsers(rf, ru, t),
                    def_user |-> 9]
         /\ a = [name |-> "alice", keep |-> FALSE, find_uid |-> af,
                 users |-> au, fetch |-> AllHooks]
    /\ op \in {"FDMOP_FETCH", "FDMOP_POLL"}
    /\ pc = "do_child"
    /\ error = 1
    /\ ferr = "FETCH_SUCCESS"
    /\ cause = NoCause
    /\ m = NewMail
    /\ mctx = NoCtx
    /\ stack = <<>>
    /\ ex = NoExpr
    /\ dl = NoDeliver
    /\ io = [outstanding |-> 0, failed |-> FALSE, closed |-> FALSE]
    /\ msg = NoMsg
    /\ ret = 0
    /\ cnt = [n |-> 0, dropped |-> 0, kept |-> 0, fetched |-> 0]
    /\ hist = [starts |-> 0, start |-> "none", poll |-> "none", finishes |-> 0,
               finish |-> "none", exits |-> 0, freed |-> {}]

SpecUsers == InitUsers /\ [][Next]_vars

\* The worker with a backend whose hooks return and a parent that answers:
\* the step the worker is at is eventually taken.
InitLive ==
    InitWith({RuleTree({}), RuleTree({4})}, {AllHooks},
             Options({TRUE}, {2}, {"DECISION_DROP"}, {FALSE}, {FALSE}),
             {"FDMOP_POLL", "FDMOP_FETCH"})

SpecLive == InitLive /\ [][Next]_vars /\ WF_vars(Next)

(***************************************************************************)
(* The claims.                                                             *)
(***************************************************************************)
\* The fold of the claims: acc combined with the items from the i-th on, each
\* with its own operator, left to right and without precedence.
RECURSIVE FoldFrom(_, _, _, _)
FoldFrom(expr, res, i, acc) ==
    IF i > Len(expr) THEN acc
    ELSE LET next == (res[i] = "MATCH_TRUE") # expr[i].inverted IN
         FoldFrom(expr, res, i + 1,
                  IF expr[i].op = "OP_AND" THEN acc /\ next ELSE acc \/ next)

\* The first item's inverted result seeds the accumulator.
SeededFold(expr, res) ==
    FoldFrom(expr, res, 2, (res[1] = "MATCH_TRUE") # expr[1].inverted)

ExprReturned == pc = "dr_expr" /\ ex.ret # -1

\* C1 as stated: when no primitive returns an error, do_expr returns the
\* left-to-right fold seeded with the first item's inverted result, whatever
\* the first item's operator is.
C1_FirstOperatorIgnored ==
    ExprReturned => ex.ret = BoolInt(SeededFold(R.expr, ex.res))

\* C1 amended: do_expr returns the left-to-right, precedence-free fold of
\* all the items, the first included, from an accumulator that starts false:
\* the first item's inverted result seeds the accumulator when its operator
\* is None or Or, and the accumulator stays false over a first item whose
\* operator is And.
C1_FoldFromFalse ==
    ExprReturned =>
        ex.ret = BoolInt(IF R.expr[1].op = "OP_AND"
                         THEN FoldFrom(R.expr, ex.res, 2, FALSE)
                         ELSE SeededFold(R.expr, ex.res))

\* a OR b AND c with a true, b and c false: false without precedence
C1_Witness ==
    /\ ExprReturned
    /\ R.expr = <<Item("OP_NONE", FALSE), Item("OP_OR", FALSE), Item("OP_AND", FALSE)>>
    /\ ex.res = <<"MATCH_TRUE", "MATCH_FALSE", "MATCH_FALSE">>
    /\ ex.ret = 0

\* C2: once a rule with a stop flag has matched, at any depth, stopped is set
\* and every enclosing do_rules call returns 0 at once: until fetch_got has
\* the result, no rule is tried (no account filter, expression, tag, action
\* or nested list), and the mail and the channel are as the stop left them.
C2_StopHaltsAllLevels ==
    [][/\ (pc = "dr_stop" /\ R.stop) =>
            (mctx'.stopped = 1 /\ pc' = "dr_return" /\ ret' = 0)
       /\ (mctx.stopped = 1 /\ pc # "fg_rules") =>
            /\ pc = "dr_return" /\ ret = 0
            /\ pc' \in {"dr_return", "fg_rules"} /\ ret' = 0
            /\ Len(stack') = Len(stack) - 1
            /\ mctx'.stopped = 1
            /\ m' = m /\ io' = io /\ msg' = msg /\ cause' = cause
      ]_vars

\* the stop of rule 5, three levels deep, with rule 4 and rule 2 still to
\* come in the enclosing lists, has reached fetch_got
C2_Witness ==
    /\ pc = "fg_rules"
    /\ mctx.stopped = 1
    /\ conf.rules # <<>> /\ conf.rules[1].rules # <<>>
    /\ ~conf.rules[1].stop
    /\ ~conf.rules[1].rules[1].stop
    /\ conf.rules[1].rules[1].rules # <<>>
    /\ conf.rules[1].rules[1].rules[1].stop
    /\ <<"action", "parent">> \in m.tags

\* C3: when a nested list is exhausted and no stop fired in it, stopped is
\* still 0 as the call returns, the calling do_rules goes on to its rule's
\* own stop flag and, that flag not being set, to the rule's next sibling,
\* which is tried unless its account filter skips it.
C3_ExhaustedNestedListContinues ==
    [][/\ (pc = "dr_return" /\ Len(stack) > 1 /\ ret = 0
             /\ Top.i > Len(Top.rules)) =>
            /\ mctx.stopped = 0 /\ mctx'.stopped = 0
            /\ pc' = "dr_stop"
            /\ stack' = SubSeq(stack, 1, Len(stack) - 1)
       /\ (pc = "dr_stop" /\ ~R.stop) =>
            /\ mctx'.stopped = 0
            /\ pc' = "do_rules"
            /\ Len(stack') = Len(stack)
            /\ Top'.i = Top.i + 1
       /\ (pc = "do_rules" /\ Top.i <= Len(Top.rules)
             /\ (R.accounts = <<>> \/ \E i \in 1..Len(R.accounts) :
                                         R.accounts[i] \in {"*", a.name})) =>
            (pc' = "dr_match" /\ stack' = stack)
      ]_vars

\* rule 2 is being tried after the nested list of rule 1 (rules 3 and 4, with
\* rule 3's own nested rule 5) ran to its end
C3_Witness ==
    /\ pc = "dr_match"
    /\ Len(stack) = 1 /\ Top.i = 2
    /\ conf.rules[1].rules # <<>>
    /\ <<"k3", "value">> \in m.tags
    /\ mctx.stopped = 0

\* The implicit policy as the claims state it.
Policy ==
    IF conf.impl_act = "DECISION_DROP" THEN "DECISION_DROP" ELSE "DECISION_KEEP"

RulesSucceeded == pc = "fg_rules" /\ ret = 0

\* C4 as stated: when do_rules has returned 0, fetch_got leaves the implicit
\* policy's decision if stopped is not set, and the decision the actions left
\* if it is.
C4_ImplicitPolicyAlone ==
    [][RulesSucceeded =>
         m'.decision = IF mctx.stopped = 0 THEN Policy ELSE m.decision]_vars

\* C4 amended: as stated when neither conf.keep_all nor the account's keep
\* flag is set; when either is set, fetch_got leaves Keep in both cases.
C4_ImplicitPolicyThenKeep ==
    [][RulesSucceeded =>
         /\ pc' = "fa_done"
         /\ m'.decision =
              IF conf.keep_all \/ a.keep THEN "DECISION_KEEP"
              ELSE IF mctx.stopped = 0 THEN Policy ELSE m.decision]_vars

\* fetch_got has returned with Drop by the implicit policy after a keep
\* action ran, in a ruleset none of whose top-level rules stops
C4_Witness ==
    /\ pc = "fa_done" /\ ferr = "FETCH_SUCCESS"
    /\ conf.impl_act = "DECISION_DROP"
    /\ m.decision = "DECISION_DROP"
    /\ <<"action", "keep">> \in m.tags
    /\ \A i \in 1..Len(conf.rules) : ~conf.rules[i].stop

\* C5: whenever the done hook is about to be told a decision while
\* conf.keep_all or the account's keep flag is set, the decision is Keep.
C5_KeepAllReportsKeep ==
    (pc = "fa_done" /\ a.fetch.done /\ (conf.keep_all \/ a.keep)) =>
        m.decision = "DECISION_KEEP"

Mismatch == msg'.size # m.size \/ msg'.body # m.body

CompletionReply ==
    pc = "da_recv" /\ msg'.type = "MSG_DONE" /\ T.type # "DELIVER_WRBACK"

\* C6 as stated: a completion reply to a non-WriteBack request whose size or
\* body offset differs from the mail's is fatal, whatever its error code; if
\* they are equal the mail's size and body offset are unchanged.
C6_MismatchAlwaysFatal ==
    [][CompletionReply =>
         /\ Mismatch => pc' = "fatal"
         /\ ~Mismatch => (m'.size = m.size /\ m'.body = m.body)]_vars

\* C6 amended: the mismatch is fatal when the reply carries error code 0; a
\* reply with a tag buffer and a non-zero error code makes do_action return
\* failure before the sizes are compared.  The mail's size and body offset
\* are unchanged by the round-trip in every case.
C6_MismatchFatalWithoutError ==
    [][CompletionReply =>
         /\ (Mismatch /\ msg'.error = 0) => pc' = "fatal"
         /\ (msg'.error # 0 /\ ~msg'.buf.null /\ msg'.buf.len # 0) =>
              (pc' = "dr_return" /\ ret' = 1 /\ cause' = "delivery")
         /\ m'.size = m.size /\ m'.body = m.body]_vars

\* the worker died of a reply with tags, error code 0 and another body offset
C6_Witness ==
    /\ pc = "fatal"
    /\ msg.type = "MSG_DONE" /\ msg.error = 0
    /\ ~msg.buf.null /\ msg.buf.len # 0
    /\ msg.action = "pipe"
    /\ msg.size = m.size /\ msg.body # m.body

Receiving == {"da_recv", "dc_exit_recv"}

\* the hooks of the fetch backend are called from these places
HookPlaces ==
    {"dc_start", "poll_account", "fa_fetch", "fa_done", "fa_purge", "dc_out"}

\* C7: the channel alternates: at most one request is unanswered; one is
\* unanswered exactly while the worker is in privsep_recv (or has died
\* there); a request is sent only when none is unanswered; and while one is
\* unanswered the worker is at no hook of the backend and at no deliverer.
C7_StrictAlternation ==
    /\ io.outstanding \in {0, 1}
    /\ pc \in Receiving => io.outstanding = 1
    /\ io.outstanding = 1 => pc \in Receiving \cup {"fatal"}
    /\ pc \in {"da_send", "dc_exit"} => io.outstanding = 0
    /\ pc \in HookPlaces \cup {"do_action"} => io.outstanding = 0

\* the request for the second user of an action is unanswered, the first
\* round-trip being over
C7_Witness ==
    /\ pc = "da_recv" /\ io.outstanding = 1
    /\ dl.ui = 2 /\ msg.type = "MSG_ACTION" /\ msg.uid = dl.users[2]
    /\ <<"action", "parent">> \in m.tags

\* C8: a failed privsep_send or privsep_recv, a reply to an action request
\* that is not MSG_DONE or has no or an empty tag buffer, and a reply to the
\* exit request that is not MSG_EXIT each end the worker in fatalx, with the
\* mail as it was before the reply; and from fatalx the worker takes no step.
C8_ProtocolViolationIsFatal ==
    [][/\ io'.failed => pc' = "fatal"
       /\ (pc = "da_recv" /\ (msg'.type # "MSG_DONE" \/ msg'.buf.null
                                \/ msg'.buf.len = 0)) =>
            (pc' = "fatal" /\ m' = m)
       /\ (pc = "dc_exit_recv" /\ msg'.type # "MSG_EXIT") =>
            (pc' = "fatal" /\ ~io'.closed)
       /\ pc = "fatal" => FALSE
      ]_vars

\* the worker died of a completion reply without a tag buffer
C8_Witness ==
    /\ pc = "fatal"
    /\ msg.type = "MSG_DONE" /\ msg.buf.null
    /\ <<"action", "pipe">> \in m.tags

Exiting == {"dc_exit_recv", "returned", "fatal"}

\* C9: an exit request is sent once, after the finish hook (if any) has been
\* called and with no request unanswered; do_child returns only with the
\* channel closed after one exit request and a MSG_EXIT reply; the channel
\* is closed nowhere else.
C9_ExitHandshake ==
    /\ hist.exits \in {0, 1}
    /\ hist.exits = 1 =>
         (pc \in Exiting /\ (a.fetch.finish => hist.finishes = 1))
    /\ pc = "dc_exit" => (io.outstanding = 0 /\ hist.exits = 0)
    /\ pc = "dc_exit_recv" => hist.exits = 1
    /\ io.closed => pc = "returned"
    /\ pc = "returned" =>
         /\ hist.exits = 1 /\ io.closed /\ io.outstanding = 0
         /\ msg.type = "MSG_EXIT"

\* do_child returned after a delivery error aborted the fetch loop
C9_Witness ==
    /\ pc = "returned" /\ cause = "delivery" /\ error = 1
    /\ hist.exits = 1 /\ hist.finishes = 1

\* C10: the finish hook, when there is one, has been called exactly once by
\* the time the exit request is due, and it is called only when processing
\* is over; when there is none it is never called; and do_child returns 1
\* when the finish hook failed.
C10_FinishOnceAfterProcessing ==
    /\ hist.finishes \in {0, 1}
    /\ pc \in {"dc_exit", "dc_exit_recv", "returned"} =>
         hist.finishes = IF a.fetch.finish THEN 1 ELSE 0
    /\ hist.finishes = 1 => pc \in {"dc_exit"} \cup Exiting
    /\ (pc = "returned" /\ hist.finish = "FETCH_ERROR") => error = 1

\* do_child returned 1 because the start hook failed: nothing was fetched,
\* and the finish hook ran and succeeded
C10_Witness ==
    /\ pc = "returned" /\ op = "FDMOP_FETCH" /\ a.fetch.fetch
    /\ hist.starts = 1 /\ cnt.fetched = 0 /\ cause = NoCause /\ error = 1
    /\ hist.finishes = 1 /\ hist.finish = "FETCH_SUCCESS"

\* C11 as stated: an Oversize answer with conf.del_big set goes to the label
\* done without the rule engine and without a cause, the item leaves the
\* dropped and kept counters as they were, and the loop goes on; without
\* conf.del_big the loop ends with the cause "fetching" and fetch_account
\* returns failure.
C11_OversizeNotCounted ==
    [][/\ (pc = "fa_fetch" /\ ferr' = "FETCH_OVERSIZE") =>
            IF conf.del_big
            THEN pc' = "fa_done" /\ cause' = NoCause /\ stack' = <<>>
            ELSE pc' = "fa_out" /\ cause' = "fetching"
       /\ (pc = "fa_done" /\ ferr = "FETCH_OVERSIZE") =>
            /\ cnt'.dropped = cnt.dropped
            /\ cnt'.kept = cnt.kept
            /\ pc' \in {"fa_purge", "fa_out"}
       /\ (pc = "fa_purge" /\ ferr = "FETCH_OVERSIZE" /\ cause' = cause) =>
            pc' = "fa_fetch"
       /\ (pc = "fa_out" /\ ferr = "FETCH_OVERSIZE" /\ ~conf.del_big) =>
            error' = 1
      ]_vars

\* The providers of users in the order of the claims; a derive flag yields
\* what find_users returned, a configured list yields itself.
Providers ==
    << [on |-> R.find_uid, yields |-> dl.found],
       [on |-> ~R.users.null, yields |-> R.users],
       [on |-> T.find_uid, yields |-> dl.found],
       [on |-> ~T.users.null, yields |-> T.users],
       [on |-> a.find_uid, yields |-> dl.found],
       [on |-> ~a.users.null, yields |-> a.users] >>

NonEmpty(i) ==
    Providers[i].on /\ ~Providers[i].yields.null /\ Providers[i].yields.list # <<>>

Users(S) ==
    IF S = {} THEN <<conf.def_user>>
    ELSE LET i == CHOOSE j \in S : \A k \in S : j <= k
         IN  IF Providers[i].yields.null THEN <<conf.def_user>>
             ELSE Providers[i].yields.list

\* da_send with the first user still to come: do_action has chosen its users
UsersChosen == pc = "da_send" /\ dl.ui = 1

\* C12 as stated: the users of the requests are the list of the first
\* provider that yields a non-empty list, and conf.def_user alone when none
\* does.
C12_FirstNonEmptyProvider ==
    UsersChosen =>
        dl.users = Users({i \in 1..Len(Providers) : NonEmpty(i)})

\* C12 amended: the users of the requests are what the first provider that is
\* set (its derive flag set, or its list present) yields, in the order rule
\* flag, rule list, action flag, action list, account flag, account list; the
\* providers after it are not consulted, even when find_users found no user
\* for it.  conf.def_user alone is used when no provider is set or when
\* find_users found no user for the first one set, and there is at least one
\* user to send a request for.
C12_FirstProviderSet ==
    UsersChosen =>
        /\ dl.users = Users({i \in 1..Len(Providers) : Providers[i].on})
        /\ Len(dl.users) >= 1

\* the request is for conf.def_user: the rule's derive flag is set,
\* find_users found no user, and the action has a list of its own
C12_Witness ==
    /\ pc = "da_recv"
    /\ R.find_uid /\ dl.found.null
    /\ ~T.users.null /\ T.users.list # <<>>
    /\ dl.users = <<conf.def_user>>
    /\ msg.type = "MSG_ACTION" /\ msg.uid = conf.def_user

\* C13 as stated: the wrapped lines, joined with a space for do_expr, are
\* back in newline form once the expression has been evaluated, whatever
\* its value: when do_rules is at the next rule, and when do_rules has
\* returned, to the calling do_rules or to fetch_got.
C13_WrappedRestored ==
    pc \in {"do_rules", "dr_return", "fg_rules", "fa_done", "fa_out"} =>
        m.wrapped = "\n"

\* C14: do_rules, at a rule with a non-empty account filter none of whose
\* patterns matches the account's name, goes to the next rule of the list
\* and does nothing else: no expression is evaluated, no tag added, no
\* action dispatched, no nested list entered, and stopped and matched are as
\* they were.  At every other rule, one with an empty filter included, it
\* goes on to match the rule.
C14_OtherAccountsRuleSkipped ==
    [][(pc = "do_rules" /\ Top.i <= Len(Top.rules)) =>
         IF /\ R.accounts # <<>>
            /\ \A i \in 1..Len(R.accounts) : R.accounts[i] \notin {"*", a.name}
         THEN /\ pc' = "do_rules"
              /\ Len(stack') = Len(stack)
              /\ Top'.rules = Top.rules /\ Top'.i = Top.i + 1
              /\ m' = m /\ mctx' = mctx /\ ex' = ex /\ dl' = dl
              /\ io' = io /\ msg' = msg /\ ret' = ret /\ cause' = cause
         ELSE pc' = "dr_match" /\ stack' = stack
      ]_vars

\* the second rule is being matched after the first, a stop rule with an
\* action for the accounts bob and carol, was passed over
C14_Witness ==
    /\ pc = "dr_match"
    /\ Len(stack) = 1 /\ Top.i = 2
    /\ conf.rules[1].accounts = <<"bob", "carol">>
    /\ conf.rules[1].stop /\ ~conf.rules[1].actions.null
    /\ mctx = NoCtx
    /\ \A t \in m.tags : t[1] # "action"

Supported ==
    \/ (op = "FDMOP_POLL" /\ a.fetch.poll)
    \/ (op = "FDMOP_FETCH" /\ a.fetch.fetch)

\* processing ended without an error: the poll hook did not fail, or the
\* fetch loop ended at a fetch that answered Complete
Processed ==
    IF op = "FDMOP_POLL" THEN hist.poll = "FETCH_SUCCESS"
    ELSE ferr = "FETCH_COMPLETE"

CleanPass ==
    /\ Supported
    /\ hist.start # "FETCH_ERROR"
    /\ Processed
    /\ hist.finish # "FETCH_ERROR"

\* fetch_account has returned to do_child
FetchAccountReturned ==
    pc = "dc_out" /\ op = "FDMOP_FETCH" /\ Supported /\ hist.start # "FETCH_ERROR"

\* C15: do_child returns 0 exactly when the operation is supported, the start
\* hook (if any) succeeded, processing ended cleanly and the finish hook (if
\* any) succeeded; and fetch_account returns 0 exactly when its loop ended at
\* Complete, and 1 with the label of the stage that ended the loop otherwise.
C15_StatusIsCleanPass ==
    /\ pc = "returned" => (error = 0 <=> CleanPass)
    /\ pc = "returned" => error \in {0, 1}
    /\ FetchAccountReturned =>
         /\ error = 0 <=> ferr = "FETCH_COMPLETE"
         /\ error = 0 <=> cause = NoCause
         /\ ferr = "FETCH_ERROR" => cause = "fetching"
         /\ ferr = "FETCH_OVERSIZE" =>
              cause \in {"fetching", "deleting", "purging"}
         /\ ferr = "FETCH_SUCCESS" =>
              cause \in {"matching", "delivery", "deleting", "keeping", "purging"}

\* do_child returned 0 from a fetch run that kept a mail
C15_Witness ==
    /\ pc = "returned" /\ error = 0
    /\ op = "FDMOP_FETCH" /\ cnt.kept > 0 /\ ferr = "FETCH_COMPLETE"
    /\ hist.starts = 1 /\ hist.finishes = 1

\* a MSG_DONE reply with a tag buffer has been taken off the channel
ReplyConsumed ==
    /\ pc = "da_recv"
    /\ io'.outstanding < io.outstanding
    /\ msg'.type = "MSG_DONE" /\ ~msg'.buf.null /\ msg'.buf.len # 0

C17_NewlinesAtDispatch ==
    pc \in {"do_deliver", "dd_action", "do_action", "da_send", "da_recv"} =>
        m.wrapped = "\n"

\* the in-child deliverer of keep is about to be called for the second
\* top-level rule, the expression of the first rule not having matched
C17_Witness ==
    /\ pc = "do_action" /\ T.deliver /\ T.type = "DELIVER_INCHILD"
    /\ Len(stack) = 1 /\ Top.i = 2
    /\ conf.rules[1].type = "RULE_EXPRESSION"
    /\ AccountSkips(conf.rules[1].accounts, a.name) = FALSE
    /\ conf.rules[1].rules # <<>>
    /\ <<"k3", "value">> \notin m.tags
    /\ m.wrapped = "\n"

\* C18 as stated: no configured list of users, the rule's, the action's or
\* the account's, is ever freed by do_action.
C18_ConfiguredListsKept ==
    hist.freed = {}

\* C19 as stated: with a start hook and a finish hook, the finish hook is
\* called only after the start hook has been called in the run.
C19_FinishAfterStart ==
    (a.fetch.start /\ a.fetch.finish /\ hist.finishes > 0) => hist.starts > 0

\* C20: every run of do_child ends: it returns, with its one exit request
\* sent, unless it has died in fatalx; and every step taken while a request
\* is unanswered is the receipt of its reply (or the failure of that
\* receipt), so that until then no hook of the backend is called, no request
\* is sent and the counters of the fetch loop stand still.
C20_Terminates ==
    /\ <>(pc \in {"returned", "fatal"})
    /\ [](pc = "returned" => hist.exits = 1)
    /\ [][io.outstanding > 0 =>
            /\ pc \in {"da_recv", "dc_exit_recv"}
            /\ io'.outstanding = 0 \/ io'.failed
            /\ cnt' = cnt
            /\ hist'.starts = hist.starts /\ hist'.finishes = hist.finishes
            /\ hist'.exits = hist.exits]_vars

\* do_child has returned after MaxMails mails were kept: each went down the
\* nested rules to the stop of rule 4, through the requests of its actions
\* and the done hook
C20_Witness ==
    /\ pc = "returned" /\ hist.exits = 1
    /\ cnt.fetched = MaxMails
    /\ cnt.kept = MaxMails
    /\ conf.impl_act = "DECISION_DROP" /\ ~conf.keep_all /\ ~a.keep
    /\ msg.type = "MSG_EXIT"

====
